---------------------------- MODULE Spec2Model ----------------------------
(***************************************************************************)
(* A model of the refactored Jison parser generator: the generator         *)
(* pipeline (BaseGenerator and its SLR, LALR, LR(1) and LL subclasses), the *)
(* entry point Jison(grammar, options) and the table-driven Parser.parse.   *)
(*                                                                         *)
(* JavaScript values are modelled as follows.                              *)
(*   - a symbol is a string; the empty string "" is the epsilon sentinel   *)
(*     of computeRemainingFirst; object keys are strings, so the numeric   *)
(*     token ids EOF = 1 and TERROR = 2 of Parser.parse are "1" and "2";   *)
(*   - `undefined` as a symbol is the string "undefined" (no grammar       *)
(*     symbol has that name); an optional value is the empty sequence      *)
(*     (undefined) or a sequence of length one;                            *)
(*   - a Set or a Map key list is a duplicate-free sequence in insertion   *)
(*     order; an array is a sequence;                                      *)
(*   - a thrown exception is the name of its class in a field `thrown`.    *)
(***************************************************************************)
EXTENDS Integers, Sequences, FiniteSets, TLC

VARIABLES
    via,        \* how the caller got its generator: "Jison" or "new" ("none" before)
    grammar,    \* the grammar object handed to the constructor
    gen,        \* the generator object (fields of BaseGenerator and its subclass)
    pc,         \* the caller's position in the pipeline
    parser,     \* the Parser object created by createParser ([made |-> FALSE] before)
    run         \* the state of one Parser.parse invocation

vars == <<via, grammar, gen, pc, parser, run>>

---------------------------------------------------------------------------
(* Bounds of the model *)

\* number of grammars of the list Grammars the caller may build from
NumGrammars == 9
\* longest token stream handed to parse()
MaxInput == 3
\* most items in one state handed to parseTable directly
MaxItems == 2
\* most lookaheads on one such item
MaxLookahead == 1

---------------------------------------------------------------------------
(* Generic helpers for JavaScript containers *)

Range(s) == {s[i] : i \in DOMAIN s}

None == <<>>
Some(v) == <<v>>

\* JavaScript passes arguments by value: F applied to the values of its
\* arguments, each computed once
Call1(F(_), a) == CHOOSE y \in {F(x) : x \in {a}} : TRUE
Call2(F(_, _), a, b) == CHOOSE y \in {F(x1, x2) : x1 \in {a}, x2 \in {b}} : TRUE
Call3(F(_, _, _), a, b, c) ==
    CHOOSE y \in {F(x1, x2, x3) : x1 \in {a}, x2 \in {b}, x3 \in {c}} : TRUE
Call4(F(_, _, _, _), a, b, c, d) ==
    CHOOSE y \in {F(x1, x2, x3, x4) : x1 \in {a}, x2 \in {b}, x3 \in {c}, x4 \in {d}} : TRUE
Call5(F(_, _, _, _, _), a, b, c, d, e) ==
    CHOOSE y \in {F(x1, x2, x3, x4, x5) :
                    x1 \in {a}, x2 \in {b}, x3 \in {c}, x4 \in {d}, x5 \in {e}} : TRUE
Call6(F(_, _, _, _, _, _), a, b, c, d, e, f) ==
    CHOOSE y \in {F(x1, x2, x3, x4, x5, x6) :
                    x1 \in {a}, x2 \in {b}, x3 \in {c}, x4 \in {d}, x5 \in {e},
                    x6 \in {f}} : TRUE
\* const x = v; F(x)
With(v, F(_)) == Call1(F, v)

\* Set.prototype.add on an insertion-ordered set
SetAdd(s, x) == IF x \in Range(s) THEN s ELSE Append(s, x)

RECURSIVE AddAll(_, _)
AddAll(s, xs) ==
    IF xs = <<>> THEN s ELSE Call2(AddAll, SetAdd(s, Head(xs)), Tail(xs))

\* Map.prototype.set / object property assignment, keys as a set
MapSet(m, k, v) == [x \in DOMAIN m \cup {k} |-> IF x = k THEN v ELSE m[x]]

EmptyMap == [x \in {} |-> <<>>]

\* all duplicate-free sequences over S of length 1..n
DistinctSeqs(S, n) ==
    {s \in UNION {[1..k -> S] : k \in 1..n} :
        \A i, j \in DOMAIN s : i # j => s[i] # s[j]}

\* all sequences over S of length 0..n
SeqsUpTo(S, n) == UNION {[1..k -> S] : k \in 0..n}

---------------------------------------------------------------------------
(* src/utils/constants.js *)

SHIFT == 1
REDUCE == 2
ACCEPT == 3

Undefined == "undefined"
SpecialSymbols_EOF == "$end"
SpecialSymbols_ACCEPT == "$accept"
SpecialSymbols_ERROR == "error"
\* SpecialSymbols has no EPSILON property: reading it yields undefined
SpecialSymbols_EPSILON == Undefined

---------------------------------------------------------------------------
(* Grammars the caller builds from (the inputs of the model) *)

Prod(sym, h) == [symbol |-> sym, handle |-> h]
\* grammar.operators holds the precedence declarations; no generator reads it
Gram(start, prods, toks) ==
    [bnf |-> TRUE, start |-> start, productions |-> prods, tokens |-> toks,
     operators |-> <<>>]

\* simpleGrammar of the tests and of the README
SimpleGrammar ==
    Gram(Some("S"), <<Prod("S", <<"a", "B">>), Prod("B", <<"b">>), Prod("B", <<"c">>)>>,
         <<"a", "b", "c">>)
\* ambiguousGrammar of the test 'should detect conflicts'
AmbiguousGrammar ==
    Gram(Some("S"), <<Prod("S", <<"a", "B">>), Prod("S", <<"a", "C">>),
                      Prod("B", <<"b">>), Prod("C", <<"b">>)>>, <<"a", "b">>)
\* invalidGrammar of the test 'should handle invalid grammar gracefully'
ChainGrammar ==
    Gram(Some("S"), <<Prod("S", <<"A">>), Prod("A", <<"a">>)>>, <<"a">>)
\* E -> E+E | E*E | (E) | id with '+' left (level 1) and '*' left (level 2)
ExprGrammar ==
    [Gram(Some("E"), <<Prod("E", <<"E", "+", "E">>), Prod("E", <<"E", "*", "E">>),
                       Prod("E", <<"(", "E", ")">>), Prod("E", <<"id">>)>>,
          <<"+", "*", "(", ")", "id">>)
       EXCEPT !.operators = <<<<"left", "+">>, <<"left", "*">>>>]
\* a grammar whose only production has terminals alone
FlatGrammar == Gram(Some("S"), <<Prod("S", <<"a", "b">>)>>, <<"a", "b">>)
\* S -> A with no production for A and no token A
UndeclaredGrammar == Gram(Some("S"), <<Prod("S", <<"A">>)>>, <<>>)
\* no productions
EmptyGrammar == Gram(Some("S"), <<>>, <<"a">>)
\* no start symbol
NoStartGrammar == Gram(None, <<Prod("S", <<"a">>)>>, <<"a">>)
\* neither bnf nor ebnf
NoBnfGrammar ==
    [bnf |-> FALSE, start |-> None, productions |-> <<>>, tokens |-> <<>>,
     operators |-> <<>>]
\* S -> a S b | epsilon
NestGrammar ==
    Gram(Some("S"), <<Prod("S", <<"a", "S", "b">>), Prod("S", <<>>)>>, <<"a", "b">>)

Grammars ==
    <<SimpleGrammar, AmbiguousGrammar, ChainGrammar, ExprGrammar, FlatGrammar,
      UndeclaredGrammar, EmptyGrammar, NoStartGrammar, NoBnfGrammar, NestGrammar>>

GrammarChoices == {Grammars[i] : i \in 1..NumGrammars}

GeneratorTypes == {"slr", "lalr", "lr1", "ll"}

---------------------------------------------------------------------------
(* BaseGenerator: constructor and grammar processing *)

\* BaseGenerator's constructor followed by the subclass constructor: SLR keeps
\* `nonterminals` a Set, the LALR, LR(1) and LL constructors assign `{}`.
NewGenerator(type) ==
    [type |-> type,
     nonterminals |-> [kind |-> IF type = "slr" THEN "Set" ELSE "Object", elems |-> <<>>],
     terminals |-> <<>>,
     productions |-> <<>>,
     firstSets |-> EmptyMap,
     followSets |-> EmptyMap,
     predictSets |-> EmptyMap,
     states |-> None,
     table |-> None,
     defaultActions |-> None,
     conflicts |-> 0,
     resolutions |-> <<>>,
     thrown |-> "none",
     calls |-> <<>>]

Throw(g, exception) == [g EXCEPT !.thrown = exception]

\* validateGrammar: the thrown exception, or "none" (no input has ebnf)
validateGrammar(gr) == IF ~gr.bnf THEN "Error" ELSE "none"

\* processTokens, for a token array
processTokens(g, tokens) ==
    [g EXCEPT !.terminals = tokens,
              !.firstSets = [x \in DOMAIN g.firstSets \cup Range(tokens) |->
                                IF x \in Range(tokens) THEN <<x>> ELSE g.firstSets[x]]]

addProduction(g, production) ==
    [g EXCEPT !.productions = Append(@, production)]

\* the forEach of processGrammar over grammar.bnf.productions: `nonterminals.add`
\* exists on a Set only
RECURSIVE CollectProductions(_, _)
CollectProductions(g, prods) ==
    IF prods = <<>> THEN g
    ELSE IF g.nonterminals.kind # "Set" THEN Throw(g, "TypeError")
    ELSE Call2(CollectProductions,
               addProduction([g EXCEPT !.nonterminals.elems = SetAdd(@, Head(prods).symbol)],
                             <<Head(prods).symbol, Head(prods).handle>>),
               Tail(prods))

processGrammar(g, gr) ==
    IF validateGrammar(gr) # "none" THEN Throw(g, validateGrammar(gr))
    ELSE With(Call2(CollectProductions, processTokens(g, gr.tokens), gr.productions),
              LAMBDA g2 :
                LET nts == Range(g2.nonterminals.elems)
                IN  IF g2.thrown # "none" THEN g2
                    \* this.nonterminals.forEach: not a function on `{}`
                    ELSE IF g2.nonterminals.kind # "Set" THEN Throw(g2, "TypeError")
                    ELSE [g2 EXCEPT
                            !.firstSets = [x \in DOMAIN g2.firstSets \cup nts |->
                                              IF x \in nts THEN <<>> ELSE g2.firstSets[x]],
                            !.followSets = [x \in DOMAIN g2.followSets \cup nts |->
                                              IF x \in nts THEN <<>> ELSE g2.followSets[x]]])

NonEpsilon(s) == s # ""

\* BaseGenerator.computeRemainingFirst over the map of FIRST sets fs
RECURSIVE RemainingFirstFrom(_, _, _, _)
RemainingFirstFrom(fs, symbols, i, result) ==
    IF i > Len(symbols) THEN SetAdd(result, "")
    ELSE IF symbols[i] \notin DOMAIN fs
    THEN Call4(RemainingFirstFrom, fs, symbols, i + 1, result)
    ELSE With(Call2(AddAll, result, SelectSeq(fs[symbols[i]], NonEpsilon)),
              LAMBDA r2 :
                IF "" \notin Range(fs[symbols[i]]) THEN r2
                ELSE Call4(RemainingFirstFrom, fs, symbols, i + 1, r2))

computeRemainingFirst(fs, symbols) ==
    IF Len(symbols) = 0 THEN <<"">> ELSE Call4(RemainingFirstFrom, fs, symbols, 1, <<>>)

---------------------------------------------------------------------------
(* SLRGenerator: FIRST and FOLLOW (the LALR generator repeats the same text) *)

RECURSIVE ProductionFirstFrom(_, _, _, _)
ProductionFirstFrom(fs, handle, i, result) ==
    IF i > Len(handle) THEN SetAdd(result, "")
    ELSE IF handle[i] \notin DOMAIN fs
    THEN Call4(ProductionFirstFrom, fs, handle, i + 1, result)
    ELSE With(Call2(AddAll, result, SelectSeq(fs[handle[i]], NonEpsilon)),
              LAMBDA r2 :
                IF "" \notin Range(fs[handle[i]]) THEN r2
                ELSE Call4(ProductionFirstFrom, fs, handle, i + 1, r2))

computeProductionFirst(fs, handle) == Call4(ProductionFirstFrom, fs, handle, 1, <<>>)

\* one pass of the forEach over the productions, from production i on
RECURSIVE FirstPass(_, _, _)
FirstPass(prods, fs, i) ==
    IF i > Len(prods) THEN fs
    ELSE With(computeProductionFirst(fs, prods[i][2]),
              LAMBDA newSymbols :
                Call3(FirstPass, prods,
                      [fs EXCEPT ![prods[i][1]] = Call2(AddAll, @, newSymbols)], i + 1))

\* while (changed)
RECURSIVE FirstLoop(_, _)
FirstLoop(prods, fs) ==
    With(Call3(FirstPass, prods, fs, 1),
         LAMBDA next : IF next = fs THEN fs ELSE FirstLoop(prods, next))

computeFirstSets(g) ==
    \* this.nonterminals.forEach: not a function on `{}`
    IF g.nonterminals.kind # "Set" THEN Throw(g, "TypeError")
    ELSE LET ts == Range(g.terminals)
             nts == Range(g.nonterminals.elems)
             fs1 == [x \in DOMAIN g.firstSets \cup ts \cup nts |->
                        IF x \in nts THEN <<>>
                        ELSE IF x \in ts THEN <<x>> ELSE g.firstSets[x]]
         IN  [g EXCEPT !.firstSets = Call2(FirstLoop, g.productions, fs1)]

\* the loop over the positions of one right-hand side, from position i on
RECURSIVE FollowPositions(_, _, _, _, _)
FollowPositions(g, fo, lhs, rhs, i) ==
    IF i > Len(rhs) THEN fo
    ELSE IF rhs[i] \notin Range(g.nonterminals.elems)
         THEN FollowPositions(g, fo, lhs, rhs, i + 1)
    ELSE With(computeProductionFirst(g.firstSets, SubSeq(rhs, i + 1, Len(rhs))),
              LAMBDA trailerFirst :
                With([fo EXCEPT ![rhs[i]] =
                        Call2(AddAll, @, SelectSeq(trailerFirst, NonEpsilon))],
                     LAMBDA fo1 :
                        Call5(FollowPositions, g,
                              IF "" \in Range(trailerFirst) \/ i = Len(rhs)
                              THEN [fo1 EXCEPT ![rhs[i]] = Call2(AddAll, @, fo1[lhs])]
                              ELSE fo1,
                              lhs, rhs, i + 1)))

RECURSIVE FollowPass(_, _, _)
FollowPass(g, fo, i) ==
    IF i > Len(g.productions) THEN fo
    ELSE Call3(FollowPass, g,
               Call5(FollowPositions, g, fo, g.productions[i][1], g.productions[i][2], 1),
               i + 1)

RECURSIVE FollowLoop(_, _)
FollowLoop(g, fo) ==
    With(Call3(FollowPass, g, fo, 1),
         LAMBDA next : IF next = fo THEN fo ELSE FollowLoop(g, next))

computeFollowSets(g, gr) ==
    IF g.nonterminals.kind # "Set" THEN Throw(g, "TypeError")
    ELSE LET nts == Range(g.nonterminals.elems)
             fo0 == [x \in DOMAIN g.followSets \cup nts |->
                        IF x \in nts THEN <<>> ELSE g.followSets[x]]
         IN  \* this.followSets.get(startSymbol) is undefined: .add throws
             IF gr.start = None \/ gr.start[1] \notin DOMAIN fo0 THEN Throw(g, "TypeError")
             ELSE [g EXCEPT !.followSets =
                        Call2(FollowLoop, g, [fo0 EXCEPT ![gr.start[1]] = SetAdd(@, "$")])]

---------------------------------------------------------------------------
(* SLRGenerator: items, states and the canonical collection.                *)
(* An item is [production, dotPosition, lookahead]: production is the index *)
(* (from 0) of the production array the item refers to, lookahead a Set.    *)
(* A state is [items, transitions]: the item array and its `transitions`    *)
(* property, undefined or a Map of symbol -> state index as <<symbol, n>>.  *)

Item(p, d, la) == [production |-> p, dotPosition |-> d, lookahead |-> la]

Lhs(g, item) == g.productions[item.production + 1][1]
Rhs(g, item) == g.productions[item.production + 1][2]

\* rhs[item.dotPosition]: undefined past the end
SymbolAfterDot(g, item) ==
    IF item.dotPosition < Len(Rhs(g, item)) THEN Rhs(g, item)[item.dotPosition + 1]
    ELSE Undefined

\* Array.from(lookahead).sort().join(','): the set of lookaheads, except that
\* the set holding only '' joins to the same text as the empty set
LookaheadKey(la) == IF Range(la) = {""} THEN {} ELSE Range(la)

\* `${lhs}->${rhs.join(' ')}|${dotPosition}|${lookaheads}`
itemKey(g, item) ==
    <<Lhs(g, item), Rhs(g, item), item.dotPosition, LookaheadKey(item.lookahead)>>

\* state.map(itemKey).sort().join('|'): the item keys without their order
stateKey(g, items) == {itemKey(g, items[i]) : i \in DOMAIN items}

\* state.some(...): `some` exists on an array, not on a Set
hasItem(g, state, item) ==
    IF state.kind # "Array" THEN [thrown |-> "TypeError", value |-> FALSE]
    ELSE [thrown |-> "none",
          value |-> \E i \in DOMAIN state.elems : itemKey(g, state.elems[i]) = itemKey(g, item)]

\* firstSet.forEach of closure: the lookahead of a new item
RECURSIVE NewLookahead(_, _, _)
NewLookahead(firstSet, parent, la) ==
    IF firstSet = <<>> THEN la
    ELSE Call3(NewLookahead, Tail(firstSet), parent,
               IF Head(firstSet) # SpecialSymbols_EPSILON
               THEN SetAdd(la, Head(firstSet))
               ELSE Call2(AddAll, la, parent.lookahead))

\* the indices of the productions whose left-hand side is symbol, in order
ProductionsOf(g, symbol) ==
    SelectSeq([i \in 1..Len(g.productions) |-> i - 1],
              LAMBDA p : g.productions[p + 1][1] = symbol)

\* the forEach of closure over the productions of the symbol after the dot
RECURSIVE AddClosureItems(_, _, _, _, _, _)
AddClosureItems(g, cl, queue, item, firstSet, prods) ==
    IF prods = <<>> THEN [thrown |-> "none", items |-> cl, queue |-> queue]
    ELSE With(Item(Head(prods), 0, Call3(NewLookahead, firstSet, item, <<>>)),
              LAMBDA newItem :
                With(hasItem(g, [kind |-> "Set", elems |-> cl], newItem),
                     LAMBDA has :
                        IF has.thrown # "none"
                        THEN [thrown |-> has.thrown, items |-> cl, queue |-> queue]
                        ELSE IF ~has.value
                        THEN Call6(AddClosureItems, g, Append(cl, newItem),
                                   Append(queue, newItem), item, firstSet, Tail(prods))
                        ELSE Call6(AddClosureItems, g, cl, queue, item, firstSet,
                                   Tail(prods))))

\* while (queue.length > 0)
RECURSIVE ClosureLoop(_, _, _)
ClosureLoop(g, cl, queue) ==
    IF queue = <<>> THEN [thrown |-> "none", items |-> cl]
    ELSE LET item == Head(queue)
             symbol == SymbolAfterDot(g, item)
         IN  IF symbol = Undefined \/ symbol = ""
                \/ symbol \notin Range(g.nonterminals.elems)
             THEN Call3(ClosureLoop, g, cl, Tail(queue))
             ELSE With(Call6(AddClosureItems, g, cl, Tail(queue), item,
                             computeRemainingFirst(
                                g.firstSets,
                                SubSeq(Rhs(g, item), item.dotPosition + 2,
                                       Len(Rhs(g, item)))),
                             ProductionsOf(g, symbol)),
                       LAMBDA r :
                          IF r.thrown # "none" THEN [thrown |-> r.thrown, items |-> cl]
                          ELSE ClosureLoop(g, r.items, r.queue))

\* closure(items): [thrown, items]; destructuring item.production throws when
\* the production is undefined (an index past the production list)
closure(g, items) ==
    IF \E i \in DOMAIN items : items[i].production >= Len(g.productions)
    THEN [thrown |-> "TypeError", items |-> <<>>]
    ELSE Call3(ClosureLoop, g, items, items)

\* computeTransitions: the Map symbol -> [nextItem] as <<symbol, items>> in
\* insertion order
RECURSIVE TransitionsFrom(_, _, _, _)
TransitionsFrom(g, items, i, acc) ==
    IF i > Len(items) THEN acc
    ELSE LET item == items[i]
             symbol == SymbolAfterDot(g, item)
             nextItem == Item(item.production, item.dotPosition + 1, item.lookahead)
         IN  IF symbol = Undefined \/ symbol = ""
             THEN Call4(TransitionsFrom, g, items, i + 1, acc)
             ELSE IF \E k \in DOMAIN acc : acc[k][1] = symbol
             THEN Call4(TransitionsFrom, g, items, i + 1,
                     [k \in DOMAIN acc |->
                        IF acc[k][1] = symbol THEN <<symbol, Append(acc[k][2], nextItem)>>
                        ELSE acc[k]])
             ELSE Call4(TransitionsFrom, g, items, i + 1,
                        Append(acc, <<symbol, <<nextItem>>>>))

computeTransitions(g, items) == Call4(TransitionsFrom, g, items, 1, <<>>)

\* state.transitions.set(symbol, index) on the Map (created when undefined)
SetTransition(state, symbol, index) ==
    LET old == IF state.transitions = None THEN <<>> ELSE state.transitions[1]
    IN  [state EXCEPT !.transitions =
            Some(IF \E k \in DOMAIN old : old[k][1] = symbol
                 THEN [k \in DOMAIN old |->
                          IF old[k][1] = symbol THEN <<symbol, index>> ELSE old[k]]
                 ELSE Append(old, <<symbol, index>>))]

\* the body of the inner for-of once the closure of the target is known
AddTransition(g, states, stateMap, i, symbol, next) ==
    LET key == stateKey(g, next.items)
        isNew == key \notin DOMAIN stateMap
        states1 == IF isNew
                   THEN Append(states, [items |-> next.items, transitions |-> None])
                   ELSE states
        stateMap1 == IF isNew THEN MapSet(stateMap, key, Len(states)) ELSE stateMap
    IN  [thrown |-> "none",
         states |-> [states1 EXCEPT ![i] = SetTransition(@, symbol, stateMap1[key])],
         stateMap |-> stateMap1]

\* the inner for-of of canonicalCollection over the transitions of state i
RECURSIVE CollectTransitions(_, _, _, _, _)
CollectTransitions(g, states, stateMap, i, trans) ==
    IF trans = <<>> THEN [thrown |-> "none", states |-> states, stateMap |-> stateMap]
    ELSE With(closure(g, Head(trans)[2]),
              LAMBDA next :
                IF next.thrown # "none"
                THEN [thrown |-> next.thrown, states |-> states, stateMap |-> stateMap]
                ELSE With(Call6(AddTransition, g, states, stateMap, i, Head(trans)[1], next),
                          LAMBDA r : CollectTransitions(g, r.states, r.stateMap, i,
                                                        Tail(trans))))

\* for (let i = 0; i < states.length; i++), i counted from 1 here
RECURSIVE CollectStates(_, _, _, _)
CollectStates(g, states, stateMap, i) ==
    IF i > Len(states) THEN [thrown |-> "none", states |-> states]
    ELSE With(Call5(CollectTransitions, g, states, stateMap, i,
                    computeTransitions(g, states[i].items)),
              LAMBDA r :
                IF r.thrown # "none" THEN [thrown |-> r.thrown, states |-> states]
                ELSE Call4(CollectStates, g, r.states, r.stateMap, i + 1))

\* canonicalCollection: [thrown, states]
canonicalCollection(g) ==
    With(closure(g, <<Item(0, 0, <<SpecialSymbols_EOF>>)>>),
         LAMBDA initialState :
            IF initialState.thrown # "none"
            THEN [thrown |-> initialState.thrown, states |-> <<>>]
            ELSE Call4(CollectStates, g,
                       <<[items |-> initialState.items, transitions |-> None]>>,
                       MapSet(EmptyMap, stateKey(g, initialState.items), 0), 1))

---------------------------------------------------------------------------
(* SLRGenerator: the parse table.  A table is an array of rows; a row is an *)
(* object symbol -> action, an action the array <<kind, number>>.           *)

Action(kind, n) == <<kind, n>>

\* resolveConflict(production, action): the action recorded as the resolution
resolveConflict(production, action) ==
    IF action[1] = SHIFT THEN action ELSE Action(REDUCE, production)

\* state.transitions.forEach: stateTable[symbol] = [SHIFT, nextState]
RECURSIVE ShiftRow(_, _)
ShiftRow(transitions, row) ==
    IF transitions = <<>> THEN row
    ELSE Call2(ShiftRow, Tail(transitions),
               MapSet(row, Head(transitions)[1], Action(SHIFT, Head(transitions)[2])))

\* item.lookahead.forEach of one completed item; acc is [row, conflicts, resolutions]
RECURSIVE ReduceLookaheads(_, _, _, _)
ReduceLookaheads(acc, stateIndex, item, las) ==
    IF las = <<>> THEN acc
    ELSE LET lookahead == Head(las)
         IN  IF lookahead \in DOMAIN acc.row
             THEN Call4(ReduceLookaheads,
                     [acc EXCEPT
                        !.conflicts = @ + 1,
                        !.resolutions = Append(@, <<stateIndex, lookahead,
                                                    resolveConflict(item.production,
                                                                    acc.row[lookahead])>>)],
                     stateIndex, item, Tail(las))
             ELSE Call4(ReduceLookaheads,
                     [acc EXCEPT !.row = MapSet(@, lookahead,
                                                Action(REDUCE, item.production))],
                     stateIndex, item, Tail(las))

\* state.forEach(item => ...): the reduce actions of one state
RECURSIVE ReduceItems(_, _, _, _, _)
ReduceItems(g, acc, stateIndex, items, i) ==
    IF i > Len(items) THEN acc
    ELSE IF items[i].dotPosition = Len(Rhs(g, items[i]))
    THEN Call5(ReduceItems, g,
               Call4(ReduceLookaheads, acc, stateIndex, items[i], items[i].lookahead),
               stateIndex, items, i + 1)
    ELSE Call5(ReduceItems, g, acc, stateIndex, items, i + 1)

\* states.forEach((state, stateIndex) => ...); acc is [table, conflicts, resolutions]
RECURSIVE TableRows(_, _, _, _)
TableRows(g, states, i, acc) ==
    IF i > Len(states) THEN acc
    ELSE With(Call5(ReduceItems, g,
                    [row |-> IF states[i].transitions = None THEN EmptyMap
                             ELSE Call2(ShiftRow, states[i].transitions[1], EmptyMap),
                     conflicts |-> acc.conflicts,
                     resolutions |-> acc.resolutions],
                    i - 1, states[i].items, 1),
              LAMBDA r :
                Call4(TableRows, g, states, i + 1,
                      [table |-> Append(acc.table, r.row), conflicts |-> r.conflicts,
                       resolutions |-> r.resolutions]))

\* parseTable(states): the table, with this.conflicts and this.resolutions
parseTable(g, states) ==
    Call4(TableRows, g, states, 1,
          [table |-> <<>>, conflicts |-> g.conflicts, resolutions |-> g.resolutions])

\* a variant of the test: any row all of whose entries are reduces
IsDefaultRow_AllReduce(row) ==
    DOMAIN row # {} /\ \A k \in DOMAIN row : row[k][1] = REDUCE

\* a variant of the test: any row with a single entry, whatever its action
IsDefaultRow_Single(row) ==
    Cardinality(DOMAIN row) = 1

\* the test of findDefaults on one row
IsDefaultRow(row) ==
    Cardinality(DOMAIN row) = 1 /\ \A k \in DOMAIN row : row[k][1] = REDUCE

\* findDefaults(table): the object state index -> action
findDefaults(table) ==
    LET keys == {i - 1 : i \in {j \in DOMAIN table : IsDefaultRow(table[j])}}
    IN  [s \in keys |-> CHOOSE a \in Range(table[s + 1]) : TRUE]

---------------------------------------------------------------------------
(* SLRGenerator: the optimizer *)

\* the breadth-first search of removeUnreachableStates over state indices
RECURSIVE ReachableFrom(_, _, _)
ReachableFrom(states, reachable, queue) ==
    IF queue = <<>> THEN reachable
    ELSE LET state == states[Head(queue) + 1]
             targets == IF state.transitions = None THEN <<>>
                        ELSE [k \in DOMAIN state.transitions[1] |-> state.transitions[1][k][2]]
         IN  With(Call2(AddAll, <<>>, SelectSeq(targets, LAMBDA t : t \notin reachable)),
                  LAMBDA fresh :
                     Call3(ReachableFrom, states, reachable \cup Range(fresh),
                           Tail(queue) \o fresh))

\* a variant: the search never follows a transition, only state 0 is kept
removeUnreachableStates_StartOnly(g) ==
    [g EXCEPT !.states = Some(<<g.states[1][1]>>)]

\* removeUnreachableStates: this.states filtered; the table is left as it is
removeUnreachableStates(g) ==
    LET states == g.states[1]
        reachable == Call3(ReachableFrom, states, {0}, <<0>>)
        kept == SelectSeq([i \in DOMAIN states |-> i], LAMBDA i : (i - 1) \in reachable)
    IN  [g EXCEPT !.states = Some([k \in DOMAIN kept |-> states[kept[k]]])]

\* mergeEquivalentStates: "SLR(1) doesn't merge states"
mergeEquivalentStates(g) == g

---------------------------------------------------------------------------
(* The template method and its stages *)

Called(g, stage) == [g EXCEPT !.calls = Append(@, stage)]

\* LR1Generator / LLGenerator computeFirstSets and computeFollowSets read
\* production.symbol and production.handle, which the [symbol, handle] arrays
\* stored by processGrammar do not have: iterating production.handle throws,
\* and with no production this.productions[0].symbol does
objectFirstFollow(g) == Throw(g, "TypeError")

\* preprocess(): processGrammar, computeFirstSets, computeFollowSets
preprocess(g0, gr) ==
    With(Call2(processGrammar, Called(g0, "preprocess"), gr),
         LAMBDA g1 :
            IF g1.thrown # "none" THEN g1
            ELSE IF g1.type \in {"lr1", "ll"} THEN objectFirstFollow(g1)
            ELSE With(computeFirstSets(g1),
                      LAMBDA g2 : IF g2.thrown # "none" THEN g2
                                  ELSE computeFollowSets(g2, gr)))

\* SLRGenerator.buildTable(): canonicalCollection, parseTable, findDefaults
buildTable(g0) ==
    With(Called(g0, "buildTable"),
         LAMBDA g :
            With(canonicalCollection(g),
                 LAMBDA cc :
                    IF cc.thrown # "none" THEN Throw(g, cc.thrown)
                    ELSE With(parseTable(g, cc.states),
                              LAMBDA pt :
                                 [g EXCEPT !.states = Some(cc.states),
                                           !.table = Some(pt.table),
                                           !.conflicts = pt.conflicts,
                                           !.resolutions = pt.resolutions,
                                           !.defaultActions =
                                                Some(findDefaults(pt.table))])))

\* SLRGenerator.optimize(): removeUnreachableStates, mergeEquivalentStates
optimize(g0) ==
    mergeEquivalentStates(Call1(removeUnreachableStates, Called(g0, "optimize")))

\* BaseGenerator.generate(): the stages in order, an exception ending the call
generate(g, gr) ==
    With(preprocess(g, gr),
         LAMBDA g1 :
            IF g1.thrown # "none" THEN g1
            ELSE With(buildTable(g1),
                      LAMBDA g2 : IF g2.thrown # "none" THEN g2 ELSE optimize(g2)))

\* new Parser() and parser.init(dict) of BaseGenerator.createParser: the
\* generator never assigns performAction, productions_, symbols_, terminals_.
\* performAction, when defined, is the set of production ids for which the
\* semantic action returns a defined value; yyParseError tells whether the
\* caller stored a function in parser.yy.parseError
createParser(g) ==
    [made |-> TRUE,
     table |-> g.table,
     defaultActions |-> g.defaultActions,
     performAction |-> None,
     productions_ |-> None,
     symbols_ |-> None,
     terminals_ |-> None,
     lexer |-> None,
     yyParseError |-> FALSE,
     parseError |-> "prototype"]

NoParser ==
    [made |-> FALSE, table |-> None, defaultActions |-> None, performAction |-> None,
     productions_ |-> None, symbols_ |-> None, terminals_ |-> None, lexer |-> None,
     yyParseError |-> FALSE, parseError |-> "prototype"]

---------------------------------------------------------------------------
(* Parser.parse(input).  The state stack `stack` alternates state indices   *)
(* and symbols; an entry is <<"state", n>>, <<"symbol", s>> or              *)
(* <<"undefined">>.  The lexer is the caller's: lex() yields the tokens of   *)
(* the input in order and then a falsy value.                               *)

TERROR == "2"
EOF == "1"

StateEntry(n) == <<"state", n>>
SymbolEntry(sym) == <<"symbol", sym>>
UndefinedEntry == <<"undefined">>
\* a table cell that is an action array, pushed where a state index belongs
CellEntry(cell) == <<"cell", cell>>

\* a table cell holding a bare state index (a goto of a hand-written table)
GOTO == 0
Goto(n) == <<GOTO, n>>

\* the numeric value of a property key; -1 stands for NaN, for which every
\* comparison is false
ToNumber(key) ==
    CASE key = "1" -> 1 [] key = "2" -> 2 [] key = "3" -> 3 [] key = "4" -> 4
      [] OTHER -> -1

Top(stack) == stack[Len(stack)]

\* the locals of one call of parse, with a record of what the call did:
\* acted lists the production ids handed to performAction, reduces counts the
\* REDUCE cases that read their production, hash is the last object handed to
\* parseError, usedDefault tells whether a default action was taken
IdleRun ==
    [status |-> "idle", input |-> <<>>, pos |-> 0, stack |-> <<>>, vstack |-> <<>>,
     lstack |-> <<>>, symbol |-> None, preErrorSymbol |-> None, recovering |-> 0,
     yytext |-> "", lexCalls |-> 0, reported |-> 0, result |-> "none", thrown |-> "none",
     acted |-> <<>>, reduces |-> 0, hash |-> None, usedDefault |-> FALSE, shifts |-> 0]

Raise(r, exception) == [r EXCEPT !.status = "thrown", !.thrown = exception]
Return(r, value) == [r EXCEPT !.status = "returned", !.result = value]

\* lines 27-76: Object.create(this.lexer) throws on an undefined lexer
parseSetup(p, input) ==
    IF p.lexer = None THEN Raise([IdleRun EXCEPT !.input = input], "TypeError")
    ELSE [IdleRun EXCEPT !.status = "running", !.input = input,
                         !.stack = <<StateEntry(0)>>,
                         !.vstack = <<"null">>,
                         !.lstack = <<0>>]

\* lines 64-68: this.parseError is assigned, from yy.parseError when it is a
\* function and from the prototype otherwise
AssignParseError(p) ==
    IF p.lexer = None THEN p
    ELSE [p EXCEPT !.parseError = IF p.yyParseError THEN "yy" ELSE "own"]

\* lexer.lex() || EOF, with the lexer's position and text afterwards
Lex(r) ==
    IF r.pos < Len(r.input)
    THEN [token |-> r.input[r.pos + 1], pos |-> r.pos + 1, yytext |-> r.input[r.pos + 1]]
    ELSE [token |-> EOF, pos |-> r.pos, yytext |-> ""]

\* table[state] && table[state][symbol]: the action, or None for undefined
Lookup(table, entry, symbol) ==
    IF entry[1] # "state" \/ entry[2] + 1 \notin DOMAIN table THEN None
    ELSE IF symbol \notin DOMAIN table[entry[2] + 1] THEN None
    ELSE Some(table[entry[2] + 1][symbol])

\* this.defaultActions[state]
DefaultOf(defaults, entry) ==
    IF entry[1] # "state" \/ entry[2] \notin DOMAIN defaults THEN None
    ELSE Some(defaults[entry[2]])

\* the keys of table[state] reported as expected: terminals_[p] && p > TERROR
Expected(p, state) ==
    IF p.table = None \/ state[1] # "state" \/ state[2] + 1 \notin DOMAIN p.table[1]
    THEN {}
    ELSE {k \in DOMAIN p.table[1][state[2] + 1] :
            k \in DOMAIN p.terminals_[1] /\ ToNumber(k) > ToNumber(TERROR)}

\* lines 90-131 for an undefined action.  `error_rule_depth` is declared and
\* never assigned: the report reads this.terminals_ (a TypeError when it is
\* undefined), the parser's own parseError calls this.trace, which Parser
\* does not define (a TypeError), a caller's yy.parseError returns, and
\* popStack(undefined) then sets stack.length to NaN (a RangeError).
parseErrorPath(p, r) ==
    LET symbol == IF r.symbol = None THEN Undefined ELSE r.symbol[1]
        hash == [token |-> IF p.terminals_ # None /\ symbol \in DOMAIN p.terminals_[1]
                           THEN p.terminals_[1][symbol] ELSE symbol,
                 expected |-> Expected(p, Top(r.stack)),
                 recoverable |-> TRUE]
        told == [r EXCEPT !.reported = @ + 1, !.hash = Some(hash)]
    IN  IF r.recovering = 0 /\ p.terminals_ = None THEN Raise(r, "TypeError")
        ELSE IF r.recovering = 0 /\ p.parseError # "yy" THEN Raise(told, "TypeError")
        ELSE Raise(IF r.recovering = 0 THEN told ELSE r, "RangeError")

\* a variant of the SHIFT case: the symbol and the state are pushed, the value
\* and the location are not
parseShift_StateOnly(r, action) ==
    LET symbol == IF r.symbol = None THEN Undefined ELSE r.symbol[1]
        pushed == [r EXCEPT !.stack = @ \o <<SymbolEntry(symbol), StateEntry(action[2])>>,
                            !.shifts = @ + 1]
    IN  IF r.preErrorSymbol = None
        THEN Raise([pushed EXCEPT !.symbol = None], "TypeError")
        ELSE [pushed EXCEPT !.symbol = r.preErrorSymbol, !.preErrorSymbol = None]

\* case ParserActions.SHIFT.  `yyloc` is declared const, so the assignment
\* yyloc = lexer.yylloc of the branch without a pre-error symbol throws, after
\* the pushes
parseShift(r, action) ==
    LET symbol == IF r.symbol = None THEN Undefined ELSE r.symbol[1]
        pushed == [r EXCEPT !.stack = @ \o <<SymbolEntry(symbol), StateEntry(action[2])>>,
                            !.vstack = Append(@, r.yytext),
                            !.lstack = Append(@, r.pos),
                            !.shifts = @ + 1]
    IN  IF r.preErrorSymbol = None
        THEN Raise([pushed EXCEPT !.symbol = None], "TypeError")
        ELSE [pushed EXCEPT !.symbol = r.preErrorSymbol, !.preErrorSymbol = None]

\* the entry pushed for newState = table[...][...]
NewStateEntry(goto) ==
    IF goto = None THEN UndefinedEntry
    ELSE IF goto[1][1] = GOTO THEN StateEntry(goto[1][2])
    ELSE CellEntry(goto[1])

\* a variant of the REDUCE case: the stacks are cut before the semantic action
\* is called
parseReduce_PopFirst(p, r, action) ==
    IF p.productions_ = None \/ action[2] + 1 \notin DOMAIN p.productions_[1]
    THEN Raise(r, "TypeError")
    ELSE LET production == p.productions_[1][action[2] + 1]
             len == production[2]
             read == [r EXCEPT !.reduces = @ + 1]
             called == [read EXCEPT !.acted = Append(@, action[2])]
         IN  IF len > Len(r.lstack) \/ p.performAction = None \/ len > 0
             THEN Raise(read, "TypeError")
             ELSE IF action[2] \in p.performAction[1] THEN Return(called, "value")
             ELSE LET exposed == Top(r.stack)
                      goto == IF p.table = None THEN None
                              ELSE Lookup(p.table[1], exposed, production[1])
                  IN  IF exposed[1] # "state" \/ exposed[2] + 1 \notin DOMAIN p.table[1]
                      THEN Raise(called, "TypeError")
                      ELSE [called EXCEPT
                              !.stack = @ \o <<SymbolEntry(production[1]),
                                               NewStateEntry(goto)>>,
                              !.vstack = Append(@, Undefined),
                              !.lstack = Append(@, r.lstack[Len(r.lstack)])]

\* case ParserActions.REDUCE: this.productions_ and this.performAction are read
\* first; `stack` is a const, so `stack = stack.slice(...)` throws when len > 0
parseReduce(p, r, action) ==
    IF p.productions_ = None \/ action[2] + 1 \notin DOMAIN p.productions_[1]
    THEN Raise(r, "TypeError")
    ELSE LET production == p.productions_[1][action[2] + 1]
             len == production[2]
             read == [r EXCEPT !.reduces = @ + 1]
             called == [read EXCEPT !.acted = Append(@, action[2])]
         IN  IF len > Len(r.lstack) \/ p.performAction = None THEN Raise(read, "TypeError")
             ELSE IF action[2] \in p.performAction[1] THEN Return(called, "value")
             ELSE IF len > 0 THEN Raise(called, "TypeError")
             ELSE LET exposed == Top(r.stack)
                      goto == IF p.table = None THEN None
                              ELSE Lookup(p.table[1], exposed, production[1])
                  IN  \* table[undefined] throws; a missing cell pushes undefined
                      IF exposed[1] # "state" \/ exposed[2] + 1 \notin DOMAIN p.table[1]
                      THEN Raise(called, "TypeError")
                      ELSE [called EXCEPT
                              !.stack = @ \o <<SymbolEntry(production[1]),
                                               NewStateEntry(goto)>>,
                              \* yyval.$ = vstack[vstack.length - 0]: undefined
                              !.vstack = Append(@, Undefined),
                              !.lstack = Append(@, r.lstack[Len(r.lstack)])]

\* a variant of the iteration: the lexer is asked in every state without a
\* default action, a lookahead pending or not
parseIteration_LexAgain(p, r) ==
    LET state == Top(r.stack)
    IN  \* this.defaultActions[state] on an undefined defaultActions
        IF p.defaultActions = None THEN Raise(r, "TypeError")
        ELSE LET default == DefaultOf(p.defaultActions[1], state)
                 lexed == Lex(r)
                 r1 == IF default = None
                       THEN [r EXCEPT !.symbol = Some(lexed.token), !.pos = lexed.pos,
                                      !.yytext = lexed.yytext, !.lexCalls = @ + 1]
                       ELSE [r EXCEPT !.usedDefault = TRUE]
             IN  \* table[state] on an undefined table
                 IF default = None /\ p.table = None THEN Raise(r1, "TypeError")
                 ELSE LET action == IF default # None THEN default
                                    ELSE Lookup(p.table[1], state, r1.symbol[1])
                      IN  \* an undefined cell, or a bare number (no length)
                          IF action = None \/ action[1][1] = GOTO
                          THEN parseErrorPath(p, r1)
                          ELSE IF action[1][1] = SHIFT THEN parseShift(r1, action[1])
                          ELSE IF action[1][1] = REDUCE THEN parseReduce(p, r1, action[1])
                          ELSE IF action[1][1] = ACCEPT THEN Return(r1, "true")
                          ELSE r1

\* one iteration of while (true), lines 79-194
parseIteration(p, r) ==
    LET state == Top(r.stack)
    IN  \* this.defaultActions[state] on an undefined defaultActions
        IF p.defaultActions = None THEN Raise(r, "TypeError")
        ELSE LET default == DefaultOf(p.defaultActions[1], state)
                 lexed == Lex(r)
                 r1 == IF default = None /\ r.symbol = None
                       THEN [r EXCEPT !.symbol = Some(lexed.token), !.pos = lexed.pos,
                                      !.yytext = lexed.yytext, !.lexCalls = @ + 1]
                       ELSE IF default # None THEN [r EXCEPT !.usedDefault = TRUE]
                       ELSE r
             IN  \* table[state] on an undefined table
                 IF default = None /\ p.table = None THEN Raise(r1, "TypeError")
                 ELSE LET action == IF default # None THEN default
                                    ELSE Lookup(p.table[1], state, r1.symbol[1])
                      IN  \* an undefined cell, or a bare number (no length)
                          IF action = None \/ action[1][1] = GOTO
                          THEN parseErrorPath(p, r1)
                          ELSE IF action[1][1] = SHIFT THEN parseShift(r1, action[1])
                          ELSE IF action[1][1] = REDUCE THEN parseReduce(p, r1, action[1])
                          ELSE IF action[1][1] = ACCEPT THEN Return(r1, "true")
                          ELSE r1

---------------------------------------------------------------------------
(* The program: a caller builds a parser, through Jison(grammar, options)   *)
(* or through a generator it constructs and drives itself, and parses.      *)

Init ==
    /\ via = "none"
    /\ grammar = NoBnfGrammar
    /\ gen = NewGenerator("none")
    /\ pc = "idle"
    /\ parser = NoParser
    /\ run = IdleRun

StageDone(g, stage) == IF g.thrown # "none" THEN "thrown" ELSE stage

\* Jison(grammar, options): createGenerator, then createParser
Jison(gr, type) ==
    /\ pc = "idle"
    /\ via' = "Jison"
    /\ grammar' = gr
    /\ gen' = NewGenerator(type)
    /\ parser' = createParser(NewGenerator(type))
    /\ pc' = "handed"
    /\ UNCHANGED run

\* new SLRGenerator(grammar), new LALRGenerator(grammar), ...
Construct(gr, type) ==
    /\ pc = "idle"
    /\ via' = "new"
    /\ grammar' = gr
    /\ gen' = NewGenerator(type)
    /\ pc' = "constructed"
    /\ UNCHANGED <<parser, run>>

Preprocess ==
    /\ pc = "constructed"
    /\ gen' = Call2(preprocess, gen, grammar)
    /\ pc' = StageDone(gen', "preprocessed")
    /\ UNCHANGED <<via, grammar, parser, run>>

BuildTable ==
    /\ pc = "preprocessed"
    /\ gen' = Call1(buildTable, gen)
    /\ pc' = StageDone(gen', "built")
    /\ UNCHANGED <<via, grammar, parser, run>>

Optimize ==
    /\ pc = "built"
    /\ gen' = Call1(optimize, gen)
    /\ pc' = StageDone(gen', "optimized")
    /\ UNCHANGED <<via, grammar, parser, run>>

Generate ==
    /\ pc = "constructed"
    /\ gen' = Call2(generate, gen, grammar)
    /\ pc' = StageDone(gen', "generated")
    /\ UNCHANGED <<via, grammar, parser, run>>

CreateParser ==
    /\ pc \in {"built", "optimized", "generated"}
    /\ parser' = createParser(gen)
    /\ pc' = "handed"
    /\ UNCHANGED <<via, grammar, gen, run>>

\* the caller's parser.lexer = lexer
SetLexer ==
    /\ parser.made
    /\ parser.lexer = None
    /\ run.status = "idle"
    /\ parser' = [parser EXCEPT !.lexer = Some("lexer")]
    /\ UNCHANGED <<via, grammar, gen, pc, run>>

Inputs(gr) == SeqsUpTo(Range(gr.tokens), MaxInput)

\* parser.parse(input) up to the loop; this.parseError is assigned on the way
ParseStart(input) ==
    /\ parser.made
    /\ run.status = "idle"
    /\ run' = parseSetup(parser, input)
    /\ parser' = AssignParseError(parser)
    /\ UNCHANGED <<via, grammar, gen, pc>>

ParseStep ==
    /\ run.status = "running"
    /\ run' = Call2(parseIteration, parser, run)
    /\ UNCHANGED <<via, grammar, gen, pc, parser>>

Next ==
    \/ \E gr \in GrammarChoices, type \in GeneratorTypes : Jison(gr, type)
    \/ \E gr \in GrammarChoices, type \in GeneratorTypes : Construct(gr, type)
    \/ Preprocess
    \/ BuildTable
    \/ Optimize
    \/ Generate
    \/ CreateParser
    \/ SetLexer
    \/ \E input \in Inputs(grammar) : ParseStart(input)
    \/ ParseStep

Spec == Init /\ [][Next]_vars

---------------------------------------------------------------------------
(* parseTable and findDefaults applied to states handed to them directly:  *)
(* one state over the productions of the ambiguous grammar, its items any   *)
(* items of those productions, its transitions those canonicalCollection    *)
(* records for a state whose successors are all new.                        *)

TableGrammar == AmbiguousGrammar

TableLookaheads == {"b", SpecialSymbols_EOF}

ItemsOver(g) ==
    {Item(p, d, la) : p \in 0..(Len(g.productions) - 1), d \in 0..2,
                      la \in DistinctSeqs(TableLookaheads, MaxLookahead)}

\* the item arrays closure can return: no two items with the same key
ItemArrays(g) ==
    {items \in DistinctSeqs({i \in ItemsOver(g) : i.dotPosition <= Len(Rhs(g, i))},
                            MaxItems) :
        \A i, j \in DOMAIN items : i # j => itemKey(g, items[i]) # itemKey(g, items[j])}

StateOver(g, items) ==
    LET t == computeTransitions(g, items)
    IN  [items |-> items,
         transitions |-> IF t = <<>> THEN None
                         ELSE Some([k \in DOMAIN t |-> <<t[k][1], k>>])]

InitTable ==
    /\ via = "new"
    /\ grammar = TableGrammar
    /\ pc = "states"
    /\ parser = NoParser
    /\ run = IdleRun
    /\ \E g \in {preprocess(NewGenerator("slr"), TableGrammar)} :
          gen \in {[g EXCEPT !.states = Some(<<StateOver(g, items)>>)] :
                      items \in ItemArrays(g)}

\* this.table = this.parseTable(this.states)
ParseTable ==
    /\ pc = "states"
    /\ \E pt \in {parseTable(gen, gen.states[1])} :
          gen' = [gen EXCEPT !.table = Some(pt.table),
                             !.conflicts = pt.conflicts,
                             !.resolutions = pt.resolutions]
    /\ pc' = "table"
    /\ UNCHANGED <<via, grammar, parser, run>>

\* this.defaultActions = this.findDefaults(this.table)
FindDefaults ==
    /\ pc = "table"
    /\ gen' = [gen EXCEPT !.defaultActions = Some(findDefaults(gen.table[1]))]
    /\ pc' = "built"
    /\ UNCHANGED <<via, grammar, parser, run>>

NextTable == ParseTable \/ FindDefaults

SpecTable == InitTable /\ [][NextTable]_vars

---------------------------------------------------------------------------
(* A Parser driven directly: new Parser(), parser.init(dict) with a table    *)
(* written by hand in the layout the loop of parse reads (token ids as row   *)
(* keys, "1" the end of input, "2" the error token, "3" and "4" the tokens   *)
(* a and b; a bare state index in the cell of a nonterminal), a lexer, and   *)
(* parse.                                                                    *)

MaxSteps == 8

Shift(n) == <<SHIFT, n>>
Reduce(p) == <<REDUCE, p>>
Accept == <<ACCEPT, 0>>

HandTerminals == ("2" :> "error") @@ ("3" :> "a") @@ ("4" :> "b")

\* S' -> S ; S -> (empty) | b S a, reduces on FOLLOW(S) = {end, a}
NestTable ==
    [productions_ |-> << <<"$accept", 1>>, <<"S", 0>>, <<"S", 3>> >>,
     table |-> << ("1" :> Reduce(1)) @@ ("3" :> Reduce(1)) @@ ("4" :> Shift(2))
                    @@ ("S" :> Goto(1)),
                  ("1" :> Accept),
                  ("1" :> Reduce(1)) @@ ("3" :> Reduce(1)) @@ ("4" :> Shift(2))
                    @@ ("S" :> Goto(3)),
                  ("3" :> Shift(4)),
                  ("1" :> Reduce(2)) @@ ("3" :> Reduce(2)) >>]

\* S' -> S ; S -> A ; A -> (empty) | b
UnitTable ==
    [productions_ |-> << <<"$accept", 1>>, <<"S", 1>>, <<"A", 0>>, <<"A", 1>> >>,
     table |-> << ("1" :> Reduce(2)) @@ ("4" :> Shift(3)) @@ ("S" :> Goto(1))
                    @@ ("A" :> Goto(2)),
                  ("1" :> Accept),
                  ("1" :> Reduce(1)),
                  ("1" :> Reduce(3)) >>]

\* S' -> S ; S -> (empty) | error
RecoverTable ==
    [productions_ |-> << <<"$accept", 1>>, <<"S", 0>>, <<"S", 1>> >>,
     table |-> << ("1" :> Reduce(1)) @@ ("2" :> Shift(2)) @@ ("S" :> Goto(1)),
                  ("1" :> Accept),
                  ("1" :> Reduce(2)) >>]

\* S' -> S ; S -> A | b A a ; A -> (empty), reduces on FOLLOW(A) = {end, a}
FollowTable ==
    [productions_ |-> << <<"$accept", 1>>, <<"S", 1>>, <<"S", 3>>, <<"A", 0>> >>,
     table |-> << ("1" :> Reduce(3)) @@ ("3" :> Reduce(3)) @@ ("4" :> Shift(3))
                    @@ ("S" :> Goto(1)) @@ ("A" :> Goto(2)),
                  ("1" :> Accept),
                  ("1" :> Reduce(1)),
                  ("1" :> Reduce(3)) @@ ("3" :> Reduce(3)) @@ ("A" :> Goto(4)),
                  ("3" :> Shift(5)),
                  ("1" :> Reduce(2)) >>]

HandTables == {NestTable, UnitTable, RecoverTable, FollowTable}

\* the productions whose semantic action returns a value: none, or production 1
ReturningChoices == {{}, {1}}

\* the dict handed to parser.init: the default actions are those findDefaults
\* computes for the table
Dict(t, returning) ==
    [table |-> t.table,
     defaultActions |-> findDefaults(t.table),
     performAction |-> returning,
     productions_ |-> t.productions_,
     terminals_ |-> HandTerminals]

Dicts == {Dict(t, returning) : t \in HandTables, returning \in ReturningChoices}

\* new Parser()
NewParser ==
    [made |-> TRUE, table |-> None, defaultActions |-> None, performAction |-> None,
     productions_ |-> None, symbols_ |-> None, terminals_ |-> None, lexer |-> None,
     yyParseError |-> FALSE, parseError |-> "prototype"]

\* parser.init(dict)
init(p, dict) ==
    [p EXCEPT !.table = Some(dict.table),
              !.defaultActions = Some(dict.defaultActions),
              !.performAction = Some(dict.performAction),
              !.productions_ = Some(dict.productions_),
              !.terminals_ = Some(dict.terminals_)]

\* the loop of parse run to its end, at most `fuel` iterations
RECURSIVE ParseLoop(_, _, _)
ParseLoop(p, r, fuel) ==
    IF r.status # "running" \/ fuel = 0 THEN r
    ELSE Call3(ParseLoop, p, Call2(parseIteration, p, r), fuel - 1)

\* parser.parse(input), start to end
parse(p, input) ==
    Call3(ParseLoop, AssignParseError(p), Call2(parseSetup, p, input), MaxSteps)

\* the same parser with an empty defaultActions: every action is looked up
WithoutDefaults(p) == [p EXCEPT !.defaultActions = Some(EmptyMap)]

TokenStreams == SeqsUpTo({"3", "4"}, MaxInput)

InitParser ==
    /\ via = "new"
    /\ grammar = NoBnfGrammar
    /\ gen = NewGenerator("none")
    /\ pc = "handed"
    /\ parser = NewParser
    /\ run = IdleRun

ParserInit(dict) ==
    /\ parser.table = None
    /\ run.status = "idle"
    /\ parser' = init(parser, dict)
    /\ UNCHANGED <<via, grammar, gen, pc, run>>

\* parser.yy.parseError = function ...
SetYYParseError ==
    /\ ~parser.yyParseError
    /\ run.status = "idle"
    /\ parser' = [parser EXCEPT !.yyParseError = TRUE]
    /\ UNCHANGED <<via, grammar, gen, pc, run>>

NextParser ==
    \/ \E dict \in Dicts : ParserInit(dict)
    \/ SetLexer
    \/ SetYYParseError
    \/ \E input \in TokenStreams : ParseStart(input)
    \/ ParseStep

SpecParser == InitParser /\ [][NextParser]_vars

---------------------------------------------------------------------------
(* LALRGenerator.mergeStates applied to a state list handed to it directly:  *)
(* states over the items of B -> b and C -> b of the ambiguous grammar, with *)
(* the transitions canonicalCollection records between them.                 *)

\* item => item.dotPosition > 0 || item.production[0] === this.grammar.bnf.start
getKernel(g, gr, items) ==
    SelectSeq(items, LAMBDA item :
        item.dotPosition > 0 \/ (gr.start # None /\ Lhs(g, item) = gr.start[1]))

\* `${production[0]}->${production.join(' ')}|${dotPosition}` of one item: the
\* production and the dot, the lookahead left out
CoreKey(g, item) == <<Lhs(g, item), Rhs(g, item), item.dotPosition>>

\* kernel.map(...).sort().join('|'): the texts of the items sorted, each as
\* often as the kernel holds an item with it
kernelKey(g, kernel) ==
    [c \in {CoreKey(g, kernel[i]) : i \in DOMAIN kernel} |->
        Cardinality({i \in DOMAIN kernel : CoreKey(g, kernel[i]) = c})]

\* mergeStateSet: state.forEach(item => if (!hasItem(mergedState, item)) push)
RECURSIVE MergeItems(_, _, _)
MergeItems(g, merged, items) ==
    IF items = <<>> THEN merged
    ELSE Call3(MergeItems, g,
               IF hasItem(g, [kind |-> "Array", elems |-> merged], Head(items)).value
               THEN merged ELSE Append(merged, Head(items)),
               Tail(items))

\* the <<symbol, target>> pairs of the transitions of the states at `indices`
RECURSIVE TransitionPairs(_, _)
TransitionPairs(states, indices) ==
    IF indices = <<>> THEN <<>>
    ELSE (IF states[Head(indices)].transitions = None THEN <<>>
          ELSE states[Head(indices)].transitions[1])
         \o Call2(TransitionPairs, states, Tail(indices))

RECURSIVE MergedItemsOf(_, _, _, _)
MergedItemsOf(g, states, indices, merged) ==
    IF indices = <<>> THEN merged
    ELSE Call4(MergedItemsOf, g, states, Tail(indices),
               Call3(MergeItems, g, merged, states[Head(indices)].items))

\* mergeStateSet(stateIndices): the merged item array, and as transitions a
\* Map symbol -> Set of the targets the merged states had, as
\* <<symbol, set, "Set">>
mergeStateSet(g, states, indices) ==
    LET pairs == Call2(TransitionPairs, states, indices)
        symbols == Call2(AddAll, <<>>, [k \in DOMAIN pairs |-> pairs[k][1]])
    IN  [items |-> Call4(MergedItemsOf, g, states, indices, <<>>),
         transitions |->
            Some([k \in DOMAIN symbols |->
                    <<symbols[k],
                      {pairs[j][2] : j \in {j \in DOMAIN pairs : pairs[j][1] = symbols[k]}},
                      "Set">>])]

\* mergeStates: the state indices grouped by kernel key, in the order the keys
\* first occur; a group of several states is replaced by its merge
mergeStates(g, gr) ==
    LET states == g.states[1]
        keyOf == [i \in DOMAIN states |-> kernelKey(g, getKernel(g, gr, states[i].items))]
        keys == Call2(AddAll, <<>>, keyOf)
        group(k) == SelectSeq([i \in DOMAIN states |-> i], LAMBDA i : keyOf[i] = keys[k])
    IN  [g EXCEPT !.states =
            Some([k \in DOMAIN keys |->
                    IF Len(group(k)) > 1 THEN mergeStateSet(g, states, group(k))
                    ELSE states[group(k)[1]]])]

\* the completed items of the productions B -> b and C -> b
CompletedItems(g) ==
    {i \in ItemsOver(g) : i.dotPosition = Len(Rhs(g, i)) /\ Lhs(g, i) \in {"B", "C"}}

\* the items of the same productions with the dot at the start
ShiftItems(g) ==
    {i \in ItemsOver(g) : i.dotPosition = 0 /\ Lhs(g, i) \in {"B", "C"}}

\* the item arrays closure can return over them
MergeArrays(g) ==
    {items \in DistinctSeqs(CompletedItems(g) \cup ShiftItems(g), MaxItems) :
        \A i, j \in DOMAIN items : i # j => itemKey(g, items[i]) # itemKey(g, items[j])}

\* two item arrays with different keys
MergeSeeds(g) ==
    {pair \in MergeArrays(g) \X MergeArrays(g) :
        stateKey(g, pair[1]) # stateKey(g, pair[2])}

\* the state list before the loop: two states with different keys
InitMerge ==
    /\ via = "new"
    /\ grammar = TableGrammar
    /\ pc = "seeds"
    /\ parser = NoParser
    /\ run = IdleRun
    /\ \E g \in {[preprocess(NewGenerator("slr"), TableGrammar) EXCEPT !.type = "lalr"]} :
          gen \in {[g EXCEPT !.states =
                       Some(<<[items |-> pair[1], transitions |-> None],
                              [items |-> pair[2], transitions |-> None]>>)] :
                      pair \in MergeSeeds(g)}

\* the loop of canonicalCollection over the list: the states reached by
\* transitions are added after the two, and the transitions recorded
Collect ==
    /\ pc = "seeds"
    /\ gen' = [gen EXCEPT !.states =
                  Some(Call4(CollectStates, gen, gen.states[1],
                             MapSet(MapSet(EmptyMap, stateKey(gen, gen.states[1][1].items), 0),
                                    stateKey(gen, gen.states[1][2].items), 1),
                             1).states)]
    /\ pc' = "states"
    /\ UNCHANGED <<via, grammar, parser, run>>

\* this.mergeStates()
MergeStates ==
    /\ pc = "states"
    /\ gen' = Call2(mergeStates, gen, grammar)
    /\ pc' = "merged"
    /\ UNCHANGED <<via, grammar, parser, run>>

NextMerge == Collect \/ MergeStates

SpecMerge == InitMerge /\ [][NextMerge]_vars

---------------------------------------------------------------------------
(* SLRGenerator.closure applied to an item array handed to it directly, and  *)
(* then to its own result.  The state list holds the argument and, after it, *)
(* what each call returned.                                                  *)

InitClosure ==
    /\ via = "new"
    /\ grammar = TableGrammar
    /\ pc = "items"
    /\ parser = NoParser
    /\ run = IdleRun
    /\ \E g \in {preprocess(NewGenerator("slr"), TableGrammar)} :
          gen \in {[g EXCEPT !.states = Some(<<[items |-> items, transitions |-> None]>>)] :
                      items \in ItemArrays(g)}

\* this.closure(items), items the array last returned (or the argument)
Closure ==
    /\ pc \in {"items", "closed"}
    /\ \E r \in {Call2(closure, gen, gen.states[1][Len(gen.states[1])].items)} :
          IF r.thrown # "none"
          THEN /\ gen' = [gen EXCEPT !.thrown = r.thrown]
               /\ pc' = "thrown"
          ELSE /\ gen' = [gen EXCEPT !.states =
                             Some(Append(@[1], [items |-> r.items, transitions |-> None]))]
               /\ pc' = IF pc = "items" THEN "closed" ELSE "closed twice"
    /\ UNCHANGED <<via, grammar, parser, run>>

NextClosure == Closure

SpecClosure == InitClosure /\ [][NextClosure]_vars

---------------------------------------------------------------------------
(* Properties *)

\* the generator stopped, with a table or with an exception
BuildEnded == pc \in {"thrown", "built", "optimized", "generated", "handed"}

ParseEnded == run.status \in {"returned", "thrown"}

Declared(gr) == Range(gr.tokens) \cup {gr.productions[i].symbol : i \in DOMAIN gr.productions}

\* a grammar with productions, a start symbol that has a production, and every
\* right-hand-side symbol a declared token or a left-hand side
WellFormed(gr) ==
    /\ gr.bnf
    /\ gr.productions # <<>>
    /\ gr.start # None
    /\ \E i \in DOMAIN gr.productions : gr.productions[i].symbol = gr.start[1]
    /\ \A i \in DOMAIN gr.productions : Range(gr.productions[i].handle) \subseteq Declared(gr)

\* the cells of a table holding an action of the given kind, as <<state, symbol>>
CellsOf(table, kind) ==
    {c \in UNION {{<<s, x>> : x \in DOMAIN table[s]} : s \in DOMAIN table} :
        table[c[1]][c[2]][1] = kind}

\* C1: the parser built from S -> a B; B -> b; B -> c accepts 'a b' and 'a c'
\* and ends in a parse error (not another exception) on 'a', 'a b c' and 'b'.
C1_SimpleGrammarLanguage ==
    (grammar = SimpleGrammar /\ parser.made /\ ParseEnded) =>
        /\ run.input \in {<<"a", "b">>, <<"a", "c">>} =>
              (run.status = "returned" /\ run.result = "true")
        /\ run.input \in {<<"a">>, <<"a", "b", "c">>, <<"b">>} =>
              (run.status = "thrown" /\ run.thrown = "Error" /\ run.reported > 0)

\* C2: a parser built with Jison(grammar, options) comes from a generator that
\* ran preprocess, buildTable, optimize once each and in that order, and it has
\* its table and defaultActions before any parse can start.
C2_JisonRunsStages ==
    (via = "Jison" /\ parser.made) =>
        /\ gen.calls = <<"preprocess", "buildTable", "optimize">>
        /\ parser.table # None
        /\ parser.defaultActions # None

\* C3: for a well-formed grammar and any generator type, preprocess() followed
\* by buildTable() raises nothing and leaves table and defaultActions defined.
C3_BuildCompletes ==
    (via = "new" /\ WellFormed(grammar)) =>
        /\ gen.thrown = "none"
        /\ "buildTable" \in Range(gen.calls) =>
              (gen.table # None /\ gen.defaultActions # None)

\* C4: every table that is built has exactly one Accept cell, under the end
\* marker in the state holding the completed item of production 0.
C4_AcceptUnique ==
    gen.table # None =>
        \E c \in CellsOf(gen.table[1], ACCEPT) :
            /\ CellsOf(gen.table[1], ACCEPT) = {c}
            /\ c[2] = SpecialSymbols_EOF
            /\ \E i \in DOMAIN gen.states[1][c[1]].items :
                  LET item == gen.states[1][c[1]].items[i]
                  IN  item.production = 0 /\ item.dotPosition = Len(Rhs(gen, item))

\* C5: building from a grammar with no productions fails with EmptyGrammar, with
\* no start symbol with NoStart, with an undeclared right-hand-side symbol with
\* UndeclaredSymbol, and no table is produced.
C5_MalformedGrammarRejected ==
    (BuildEnded /\ grammar \in {EmptyGrammar, NoStartGrammar, UndeclaredGrammar}) =>
        /\ gen.table = None
        /\ parser.table = None
        /\ grammar = EmptyGrammar => gen.thrown = "EmptyGrammar"
        /\ grammar = NoStartGrammar => gen.thrown = "NoStart"
        /\ grammar = UndeclaredGrammar => gen.thrown = "UndeclaredSymbol"

\* C6: a conflict never aborts construction and is always counted and recorded:
\* once buildTable has run on S -> a B | a C; B -> b; C -> b the table exists,
\* the conflict count equals the number of records and is greater than 0.
C6_ConflictsCounted ==
    (via = "new" /\ grammar = AmbiguousGrammar /\ "buildTable" \in Range(gen.calls)) =>
        /\ gen.thrown = "none"
        /\ gen.table # None
        /\ gen.conflicts = Len(gen.resolutions)
        /\ gen.conflicts > 0

\* the completed items of a state that carry the lookahead
CompletedOn(g, state, lookahead) ==
    {state.items[i].production : i \in
        {j \in DOMAIN state.items :
            /\ state.items[j].dotPosition = Len(Rhs(g, state.items[j]))
            /\ lookahead \in Range(state.items[j].lookahead)}}

\* C7: when reduces of different productions compete for a cell, the cell holds
\* the reduce of the lowest production id and the conflict record names that
\* production as the chosen action.
C7_ReduceReduceLowestId ==
    (pc \in {"table", "built"} /\ gen.table # None) =>
        \A i \in DOMAIN gen.resolutions :
            LET record == gen.resolutions[i]
                cell == gen.table[1][record[1] + 1][record[2]]
                competing == CompletedOn(gen, gen.states[1][record[1] + 1], record[2])
            IN  (cell[1] = REDUCE /\ Cardinality(competing) > 1) =>
                    /\ \A p \in competing : cell[2] <= p
                    /\ record[3] = cell

\* C8: shift/reduce collisions are settled by the declared precedences, so the
\* expression grammar with '+' and '*' left-associative builds with no conflict.
C8_PrecedenceResolves ==
    (via = "new" /\ grammar = ExprGrammar /\ "buildTable" \in Range(gen.calls)) =>
        /\ gen.thrown = "none"
        /\ gen.table # None
        /\ gen.conflicts = 0

\* C9: the LL(1) generator computes one PREDICT set per production of a
\* well-formed grammar (and builds M[A, t] from them, keeping the earliest
\* production of a conflict).
C9_PredictSetPerProduction ==
    (via = "new" /\ gen.type = "ll" /\ WellFormed(grammar) /\ gen.calls # <<>>) =>
        /\ gen.thrown = "none"
        /\ Cardinality(DOMAIN gen.predictSets) = Len(grammar.productions)

\* C10 as stated: a default is recorded for a row exactly when all its entries
\* are the same Reduce(p), under one lookahead or under several.
C10_DefaultForOneDistinctReduce ==
    pc = "built" =>
        \A s \in DOMAIN gen.table[1] :
            LET row == gen.table[1][s]
            IN  (s - 1) \in DOMAIN gen.defaultActions[1] <=>
                    /\ DOMAIN row # {}
                    /\ \A k \in DOMAIN row : row[k][1] = REDUCE
                    /\ \A k1, k2 \in DOMAIN row : row[k1] = row[k2]

\* C10 as the code has it: a default is recorded for a row exactly when the row
\* has a single entry and that entry is a reduce; the default is that entry.
C10_DefaultForSingleReduceEntry ==
    pc = "built" =>
        \A s \in DOMAIN gen.table[1] :
            LET row == gen.table[1][s]
            IN  /\ (s - 1) \in DOMAIN gen.defaultActions[1] <=>
                      \E k \in DOMAIN row : DOMAIN row = {k} /\ row[k][1] = REDUCE
                /\ (s - 1) \in DOMAIN gen.defaultActions[1] =>
                      \E k \in DOMAIN row : gen.defaultActions[1][s - 1] = row[k]

\* a table with a defaulted row has been built
C10_DefaultRecorded ==
    /\ pc = "built"
    /\ 0 \in DOMAIN gen.defaultActions[1]
    /\ gen.defaultActions[1][0][1] = REDUCE

\* the parse of the running input by the parser as it is, and by the same
\* parser looking every action up
WithDefaults == parse(parser, run.input)
LookupOnly == parse(WithoutDefaults(parser), run.input)

Initialised == parser.table # None /\ run.status # "idle"

\* C11, as stated: for every table and token stream, the loop that takes the
\* default action of a state ends a parse normally exactly when the loop
\* that looks every action up does
C11_DefaultsKeepOutcome ==
    Initialised =>
        ((WithDefaults.status = "returned") <=> (LookupOnly.status = "returned"))

\* C11, amended: the loop that takes the default action of a state reaches
\* the Accept action on a token stream exactly when the loop that looks
\* every action up does; the parse the program ran is the parse with defaults
C11_DefaultsKeepAccept ==
    Initialised =>
        /\ (WithDefaults.result = "true") <=> (LookupOnly.result = "true")
        /\ ParseEnded => run = WithDefaults

\* a parse that took a default action has ended
C11_DefaultTaken == Initialised /\ ParseEnded /\ run.usedDefault

\* generate(), or the three stages called in turn, returned
Optimized == gen.thrown = "none" /\ "optimize" \in Range(gen.calls)

ValidIndex(g, n) == n \in 0..(Len(g.states[1]) - 1)

CoreOf(items) ==
    {<<items[i].production, items[i].dotPosition>> :
        i \in {i \in DOMAIN items : items[i].dotPosition > 0 \/ items[i].production = 0}}

\* C13: merging never increases the number of states, and after it no two
\* states of the list have the same LR(0) core.
C13_OneStatePerCore ==
    /\ pc = "states" => Len(mergeStates(gen, grammar).states[1]) <= Len(gen.states[1])
    /\ pc = "merged" =>
          \A i, j \in DOMAIN gen.states[1] :
             i # j => CoreOf(gen.states[1][i].items) # CoreOf(gen.states[1][j].items)

\* parseError was called: the loop found no action for the lookahead
ErrorReported == parser.table # None /\ run.hash # None

\* some state on the stack has a Shift under the error token
RecoveryStateOnStack ==
    \E k \in DOMAIN run.stack :
        LET cell == Lookup(parser.table[1], run.stack[k], TERROR)
        IN  cell # None /\ cell[1][1] = SHIFT

\* C14: when no action is defined for the lookahead, the parse goes on from
\* the nearest state on the stack with a Shift on the error token, and when
\* there is no such state it ends with a ParserError; no other exception ends it.
C14_RecoversOrFails ==
    ErrorReported =>
        /\ run.thrown \in {"none", "ParserError"}
        /\ ~RecoveryStateOnStack => run.thrown = "ParserError"

\* C15: the recovery counter stays within 0..3, parseError is called only
\* while it is 0, and once an error is reported with a recovery state on the
\* stack the counter is 3 until a Shift lowers it.
C15_CounterSetAtSync ==
    /\ run.recovering \in 0..3
    /\ (ErrorReported /\ RecoveryStateOnStack /\ run.shifts = 0) => run.recovering = 3

\* C16: every Reduce hands its production to performAction with the stacks
\* as they were before the step; when the action returns a value the parse
\* returns it in that step with the stacks untouched, and otherwise the
\* parse does not return in that step.
C16_ActionBeforePop ==
    [][run'.reduces # run.reduces =>
          /\ Len(run'.acted) = Len(run.acted) + 1
          /\ LET p == run'.acted[Len(run'.acted)]
             IN  IF p \in parser.performAction[1]
                 THEN /\ run'.status = "returned" /\ run'.result = "value"
                      /\ run'.stack = run.stack /\ run'.vstack = run.vstack
                 ELSE run'.status # "returned"]_vars

\* a Reduce whose semantic action returned a value ended the parse
C16_ActionReturned ==
    /\ run.status = "returned" /\ run.result = "value"
    /\ run.acted # <<>> /\ run.reduces = Len(run.acted)

\* C17: a parse that ends on the Accept action returns the value on top of
\* the value stack.
C17_AcceptReturnsTopValue ==
    (run.status = "returned" /\ run.result # "value") =>
        run.result = Top(run.vstack)

\* the keys of the row of the state on top of the stack that hold an action:
\* the terminals t, the end of input among them, with ACTION[state, t] defined
ActionTerminals ==
    LET row == parser.table[1][Top(run.stack)[2] + 1]
    IN  {k \in DOMAIN row : row[k][1] # GOTO}

\* C18: the report of a syntax error names the offending token and, as
\* expected, exactly the terminals with an action in the current state, the
\* end of input included.
C18_ErrorCarriesExpected ==
    (ErrorReported /\ Top(run.stack)[1] = "state") =>
        /\ run.hash[1].token \in {run.symbol[1], parser.terminals_[1][run.symbol[1]]}
        /\ run.hash[1].expected = ActionTerminals

\* what a later call on the parser can observe of it: an own parseError that
\* is the prototype's function behaves as no own property
Observable(p) == [p EXCEPT !.parseError = IF @ = "own" THEN "prototype" ELSE @]

\* C19: no step of parse changes the Parser object it is called on.
C19_ParseLeavesParser ==
    [][run' # run => Observable(parser') = Observable(parser)]_vars

\* C20: closure returns for every item array, and applied to what it
\* returned it returns the same items.
C20_ClosureIdempotent ==
    /\ pc # "thrown"
    /\ pc = "closed twice" =>
          Range(gen.states[1][3].items) = Range(gen.states[1][2].items)

\* the state indices a transition entry names: the index canonicalCollection
\* stored, or the members of the Set mergeStateSet stored
TargetsOf(entry) == IF Len(entry) = 3 THEN entry[2] ELSE {entry[2]}

\* the items of a state with the dot before `symbol`, the dot advanced
Advanced(g, items, symbol) ==
    {Item(items[i].production, items[i].dotPosition + 1, items[i].lookahead) :
        i \in {i \in DOMAIN items : SymbolAfterDot(g, items[i]) = symbol}}

TransitionsOf(state) == IF state.transitions = None THEN <<>> ELSE state.transitions[1]

\* C21: in the state list left by merging, a state names exactly one target
\* for each symbol it has a transition on, and the state at that index holds
\* the items reached by advancing the dot over the symbol.
C21_GotoDeterministic ==
    pc = "merged" =>
        \A s \in DOMAIN gen.states[1] :
            \A k \in DOMAIN TransitionsOf(gen.states[1][s]) :
                LET entry == TransitionsOf(gen.states[1][s])[k]
                IN  /\ Cardinality(TargetsOf(entry)) = 1
                    /\ \A t \in TargetsOf(entry) :
                          /\ ValidIndex(gen, t)
                          /\ Advanced(gen, gen.states[1][s].items, entry[1])
                                \subseteq Range(gen.states[1][t + 1].items)

\* the (production, dot) pairs of a set of items
PairsOf(items) == {<<i.production, i.dotPosition>> : i \in items}

\* C26: after merging, every target of every transition is an index into the
\* new state list, and the state at that index contains the production and
\* dot of every item reached by advancing the dot over the symbol.
C26_TransitionsRedirected ==
    pc = "merged" =>
        \A s \in DOMAIN gen.states[1] :
            \A k \in DOMAIN TransitionsOf(gen.states[1][s]) :
                \A t \in TargetsOf(TransitionsOf(gen.states[1][s])[k]) :
                    /\ ValidIndex(gen, t)
                    /\ PairsOf(Advanced(gen, gen.states[1][s].items,
                                        TransitionsOf(gen.states[1][s])[k][1]))
                          \subseteq PairsOf(Range(gen.states[1][t + 1].items))

\* the set of (production, dot) pairs of a state
Lr0Core(state) == PairsOf(Range(state.items))

DerivedLookahead(g, item) ==
    NewLookahead(computeRemainingFirst(g.firstSets,
                                       SubSeq(Rhs(g, item), item.dotPosition + 2,
                                              Len(Rhs(g, item)))),
                 item, <<>>)

\* C23: once closure has run, no item of a state has the epsilon sentinel in
\* its lookahead, and the lookahead closure computed for an item derived from [A -> alpha . B beta, a]
\* holds the terminals of FIRST(beta) and, when beta is empty or nullable,
\* the lookaheads of the parent instead of epsilon.
C23_LookaheadsAreTerminals ==
    pc # "items" =>
    \A s \in DOMAIN gen.states[1] :
        \A i \in DOMAIN gen.states[1][s].items :
            LET item == gen.states[1][s].items[i]
                rest == computeRemainingFirst(gen.firstSets,
                                              SubSeq(Rhs(gen, item), item.dotPosition + 2,
                                                     Len(Rhs(gen, item))))
            IN  /\ "" \notin Range(item.lookahead)
                /\ SymbolAfterDot(gen, item) \in Range(gen.nonterminals.elems) =>
                      Range(DerivedLookahead(gen, item)) =
                         (Range(rest) \ {""})
                            \cup (IF "" \in Range(rest) THEN Range(item.lookahead) ELSE {})

\* C24: in the table of an SLR generator a Reduce(p) stands only under the
\* symbols of FOLLOW(A), A the left-hand side of p, and every completed item
\* A -> alpha . of a state fills the state's row under each symbol of FOLLOW(A),
\* whatever lookahead the item carries.
C24_ReduceAtFollow ==
    (gen.type = "slr" /\ pc \in {"table", "built"}) =>
        \A s \in DOMAIN gen.table[1] :
            LET row == gen.table[1][s]
                items == gen.states[1][s].items
            IN  /\ \A t \in DOMAIN row :
                      row[t][1] = REDUCE =>
                          t \in Range(gen.followSets[gen.productions[row[t][2] + 1][1]])
                /\ \A i \in DOMAIN items :
                      items[i].dotPosition = Len(Rhs(gen, items[i])) =>
                          Range(gen.followSets[Lhs(gen, items[i])]) \subseteq DOMAIN row

\* FIRST of one symbol of a right-hand side as C25 reads it: the computed set
\* of a declared symbol, the symbol itself for one the grammar never declares
FirstOfSymbol(g, x) ==
    IF x \in DOMAIN g.firstSets THEN Range(g.firstSets[x]) ELSE {x}

\* C25: after preprocess() of an SLR generator FOLLOW(start) holds the end
\* marker the initial item carries, FIRST(A) holds the non-epsilon members of
\* FIRST of the first symbol of each A -> X ..., an undeclared X counting as a
\* terminal, and for A -> alpha B beta FOLLOW(B) holds FIRST of the symbol
\* after B, or FOLLOW(A) when B ends the production.
C25_FirstFollowSets ==
    (gen.type = "slr" /\ gen.thrown = "none" /\ "preprocess" \in Range(gen.calls)) =>
        /\ SpecialSymbols_EOF \in Range(gen.followSets[grammar.start[1]])
        /\ \A p \in DOMAIN gen.productions :
              LET lhs == gen.productions[p][1]
                  rhs == gen.productions[p][2]
              IN  /\ rhs # <<>> =>
                        FirstOfSymbol(gen, rhs[1]) \ {""} \subseteq Range(gen.firstSets[lhs])
                  /\ \A i \in DOMAIN rhs :
                        rhs[i] \in DOMAIN gen.followSets =>
                            IF i < Len(rhs)
                            THEN FirstOfSymbol(gen, rhs[i + 1]) \ {""}
                                     \subseteq Range(gen.followSets[rhs[i]])
                            ELSE Range(gen.followSets[lhs])
                                     \subseteq Range(gen.followSets[rhs[i]])

\* C27: a Reduce(p) whose semantic action returns nothing removes |RHS(p)|
\* entries from the value and location stacks and twice as many from the state
\* stack, pushes LHS(p) and then the state the table holds for LHS(p) in the
\* state the removal exposed, and the parse goes on.
C27_ReducePopsAndGoes ==
    [][(/\ run'.reduces = run.reduces + 1
        /\ Len(run'.acted) = Len(run.acted) + 1
        /\ run'.acted[Len(run'.acted)] \notin parser.performAction[1]) =>
          LET production == parser.productions_[1][run'.acted[Len(run'.acted)] + 1]
              k == production[2]
              kept == Len(run.stack) - 2 * k
          IN  /\ run'.status = "running"
              /\ Len(run'.vstack) = Len(run.vstack) - k + 1
              /\ Len(run'.lstack) = Len(run.lstack) - k + 1
              /\ kept >= 1
              /\ run'.stack[kept + 1] = SymbolEntry(production[1])
              /\ SubSeq(run'.stack, 1, kept) = SubSeq(run.stack, 1, kept)
              /\ Len(run'.stack) = kept + 2
              /\ Lookup(parser.table[1], run.stack[kept], production[1]) # None
              /\ Top(run'.stack) =
                    StateEntry(Lookup(parser.table[1], run.stack[kept], production[1])[1][2])]_vars

\* C28: a step of the loop calls the lexer at most once, and only when the
\* state on top has no default action and no lookahead is pending; the k-th
\* call hands out the k-th token of the stream, the call after the last token
\* hands out EOF, and no call follows the one that handed out EOF.
C28_LexOnlyWhenNeeded ==
    [][run'.lexCalls # run.lexCalls =>
          /\ run.status = "running"
          /\ DefaultOf(parser.defaultActions[1], Top(run.stack)) = None
          /\ run.symbol = None
          /\ run'.lexCalls = run.lexCalls + 1
          /\ run.pos = run.lexCalls
          /\ run.lexCalls <= Len(run.input)
          /\ IF run.lexCalls < Len(run.input)
             THEN run'.pos = run.pos + 1 /\ run'.yytext = run.input[run'.lexCalls]
             ELSE run'.pos = run.pos /\ run'.yytext = ""
          /\ run'.shifts # run.shifts =>
                run'.stack[Len(run'.stack) - 1] =
                    SymbolEntry(IF run.lexCalls < Len(run.input)
                                THEN run.input[run'.lexCalls] ELSE EOF)]_vars

\* the lexer was asked for the first token of a stream of several, and the
\* token was shifted
C28_TokenRequested ==
    /\ run.lexCalls = 1 /\ run.shifts = 1
    /\ Len(run.input) > 1
    /\ ~run.usedDefault

\* C29: once parse() has set its stacks up, the value stack and the location
\* stack have the same length n >= 1 and the state stack has 2n - 1 entries,
\* states at the odd places and symbols at the even ones, state 0 at the
\* bottom; this stays so through every shift, reduction and error path.
C29_StacksParallel ==
    run.stack # <<>> =>
        /\ Len(run.vstack) >= 1
        /\ Len(run.lstack) = Len(run.vstack)
        /\ Len(run.stack) = 2 * Len(run.vstack) - 1
        /\ run.stack[1] = StateEntry(0)
        /\ \A i \in DOMAIN run.stack :
              run.stack[i][1] = IF i % 2 = 1 THEN "state" ELSE "symbol"

\* the loop goes on after a reduction that pushed a symbol and a state
C29_GrownByReduce ==
    /\ run.status = "running"
    /\ run.reduces >= 1
    /\ Len(run.stack) = 3

\* C30: a parse over a table the builder handed to the parser, by a parser
\* with a lexer, does not go on after an error was reported without a shift,
\* and when it has ended it has returned or raised a ParserError.
C30_ParseFinishes ==
    (parser.table # None /\ parser.lexer # None) =>
        /\ run.status = "running" => run.reported <= run.shifts
        /\ ParseEnded => (run.status = "returned" \/ run.thrown = "ParserError")

===========================================================================
